---------------------------- MODULE Spec2Model ----------------------------
(***************************************************************************)
(* A model of the notebook "How to Embed words in Tensorflow".             *)
(*                                                                         *)
(* The notebook is a session of cells run top to bottom: a text is         *)
(* tokenized, a vocabulary (token -> id) is built, ids of some words are   *)
(* looked up in it, an embedding matrix is created and rows are gathered   *)
(* from it with tf.nn.embedding_lookup, and a hand-written class           *)
(* Embedding wraps the same two steps.                                     *)
(*                                                                         *)
(* Strings are sequences of code points (a Python str), so that            *)
(* lower-casing, punctuation removal, splitting and lexicographic order    *)
(* are computed, not assumed.  Ids and row/column indexes count from 0 as  *)
(* in the code, so a vocabulary and a matrix are functions on 0..n-1.      *)
(* A float of the matrix is modelled by an integer drawn by a seeded       *)
(* pseudo-random generator.  A name of the session is bound when it is in   *)
(* the set bound; until then its variable holds a filler of its type.      *)
(*                                                                         *)
(* The cells that embed the same ids through tf.keras.layers.Embedding,    *)
(* tf.contrib.layers.embed_sequence and hub.Module call layers of other    *)
(* libraries and are left out; Embedding__call__ is a call of the class's  *)
(* method with any argument.                                               *)
(***************************************************************************)
EXTENDS Integers, Sequences, FiniteSets, TLC

VARIABLES
    pc,          \* the cell the session is about to run
    text,        \* the global text
    tokenized,   \* the global tokenized (a list of strings)
    vocab,       \* the global vocab (a dict: token -> id)
    VOCAB_LEN,   \* the global VOCAB_LEN
    words,       \* the tokens whose ids the session asks for
    words_ids,   \* the global words_ids (a constant tensor of ids)
    embeddings,  \* the global embeddings (the native method's matrix)
    embed,       \* the global embed (the rows gathered by the native method)
    embedding,   \* the instance of class Embedding
    words_id,    \* the argument of the last Embedding.__call__
    out,         \* what the last Embedding.__call__ returned
    seed,        \* the seed the session's random generator started from
    bound,       \* the names bound so far (an unbound name holds a filler)
    err          \* the exception that ended the session, or None

vars == << pc, text, tokenized, vocab, VOCAB_LEN, words, words_ids,
           embeddings, embed, embedding, words_id, out, seed, bound, err >>

None == "None"

-----------------------------------------------------------------------------
(* Bounds of the model.                                                    *)

\* longest generated input text (besides the notebook's own text)
MaxLen == 3
\* most words looked up in the vocabulary at once
MaxWords == 2
\* largest vocab_size / emd_dim an Embedding is constructed with
MaxDim == 2
\* longest id sequence an Embedding is called with
MaxIds == 1

-----------------------------------------------------------------------------
(* Program constants.                                                      *)

EMBED_SIZE == 50

\* the characters of the pattern '[,?.]' : ',' '?' '.'
Punctuation == {44, 63, 46}

\* the separator of split(' ')
Separator == <<32>>

NotebookText ==
   <<
      81, 117, 111, 32, 117, 115, 113, 117, 101, 32, 116, 97, 110, 100, 101, 109,
      32, 97, 98, 117, 116, 101, 114, 101, 44, 32, 67, 97, 116, 105, 108, 105,
      110, 97, 44, 32, 112, 97, 116, 105, 101, 110, 116, 105, 97, 32, 110, 111,
      115, 116, 114, 97, 63, 32, 81, 117, 97, 109, 100, 105, 117, 32, 101, 116,
      105, 97, 109, 32, 102, 117, 114, 111, 114, 32, 105, 115, 116, 101, 32, 116,
      117, 117, 115, 32, 110, 111, 115, 32, 101, 108, 117, 100, 101, 116, 63, 32,
      81, 117, 101, 109, 32, 97, 100, 32, 102, 105, 110, 101, 109, 32, 115, 101,
      115, 101, 32, 101, 102, 102, 114, 101, 110, 97, 116, 97, 32, 105, 97, 99,
      116, 97, 98, 105, 116, 32, 97, 117, 100, 97, 99, 105, 97, 63 >>

\* "abutere" and "patientia", the two words the notebook looks up
Abutere == <<97, 98, 117, 116, 101, 114, 101>>
Patientia == <<112, 97, 116, 105, 101, 110, 116, 105, 97>>

-----------------------------------------------------------------------------
(* Inputs.                                                                 *)

\* "Quo usque tandem abutere, Catilina?"
ExampleText ==
   <<
      81, 117, 111, 32, 117, 115, 113, 117, 101, 32, 116, 97, 110, 100, 101, 109,
      32, 97, 98, 117, 116, 101, 114, 101, 44, 32, 67, 97, 116, 105, 108, 105,
      110, 97, 63 >>

\* ' ' '.' 'B' 'a'
Alphabet == {32, 46, 66, 97}

SeqsUpTo(S, n) == UNION { [1..k -> S] : k \in 0..n }

Texts == SeqsUpTo(Alphabet, MaxLen) \cup {NotebookText, ExampleText}

WordPool == { <<97>>, <<98>>, <<97, 98>>, Abutere, Patientia }

WordLists == SeqsUpTo(WordPool, MaxWords) \ { <<>> }

-----------------------------------------------------------------------------
(* The tokenizer: re.sub('[,?.]','', text).lower().split(' ')              *)

\* re.sub('[,?.]', '', s): s without its punctuation characters
re_sub(s) ==
    LET keep(c) == c \notin Punctuation
    IN  SelectSeq(s, keep)

\* str.lower(): 'A'..'Z' become 'a'..'z'
lower(s) ==
    [ i \in 1..Len(s) |-> IF s[i] >= 65 /\ s[i] <= 90 THEN s[i] + 32 ELSE s[i] ]

\* the first index of character c in s, 0 when there is none
find(s, c) ==
    IF \E i \in 1..Len(s) : s[i] = c
    THEN CHOOSE i \in 1..Len(s) : s[i] = c /\ \A j \in 1..(i-1) : s[j] # c
    ELSE 0

\* str.split(): split at runs of the separator, no empty pieces
split_runs(s, sep) ==
    LET RECURSIVE pieces(_)
        pieces(r) ==
            LET i == find(r, sep[1])
            IN  IF i = 0
                THEN << r >>
                ELSE << SubSeq(r, 1, i - 1) >> \o pieces(SubSeq(r, i + 1, Len(r)))
        nonempty(x) == x # << >>
    IN  SelectSeq(pieces(s), nonempty)

\* str.split(sep) with a one-character separator: k separators give k+1
\* pieces, empty pieces included, so ''.split(' ') is ['']
RECURSIVE split(_, _)
split(s, sep) ==
    LET i == find(s, sep[1])
    IN  IF i = 0
        THEN << s >>
        ELSE << SubSeq(s, 1, i - 1) >> \o split(SubSeq(s, i + 1, Len(s)), sep)

tokenize(t) == split(lower(re_sub(t)), Separator)

-----------------------------------------------------------------------------
(* The vocabulary: {k:v for v,k in enumerate(np.unique(tokenized))}        *)

\* the order of Python / numpy strings: by code point, a proper prefix first
LexLess(a, b) ==
    \E i \in 1..(Len(a) + 1) :
        /\ i <= Len(b)
        /\ \A j \in 1..(i - 1) : a[j] = b[j]
        /\ (i = Len(a) + 1 \/ a[i] < b[i])

Range(s) == { s[i] : i \in DOMAIN s }

\* the elements of a set of strings in ascending order
RECURSIVE SortedSeq(_)
SortedSeq(S) ==
    IF S = {}
    THEN << >>
    ELSE LET m == CHOOSE x \in S : \A y \in S \ {x} : LexLess(x, y)
         IN  << m >> \o SortedSeq(S \ {m})

\* the unique elements of ar in the order of their first occurrence
RECURSIVE np_unique_unsorted(_)
np_unique_unsorted(ar) ==
    IF ar = << >>
    THEN << >>
    ELSE LET keep(x) == x # Head(ar)
         IN  << Head(ar) >> \o np_unique_unsorted(SelectSeq(Tail(ar), keep))

\* np.unique(ar): the sorted unique elements of ar
np_unique(ar) == SortedSeq(Range(ar))

\* {k:v for v,k in enumerate(u, 1)}: ids counted from 1
dict_enumerate_from1(u) ==
    [ k \in Range(u) |-> CHOOSE i \in 1..Len(u) : u[i] = k /\ \A j \in (i+1)..Len(u) : u[j] # k ]

\* {k:v for v,k in enumerate(u)}: element u[v] (counting from 0) maps to v
dict_enumerate(u) ==
    [ k \in Range(u) |-> (CHOOSE i \in 1..Len(u) : u[i] = k /\ \A j \in (i+1)..Len(u) : u[j] # k) - 1 ]

build_vocab(toks) == dict_enumerate(np_unique(toks))

\* len(vocab.keys())
len_keys(d) == Cardinality(DOMAIN d)

\* d.get(k, 0): a lookup that answers a default for a missing key
getitem_default(d, k) ==
    IF k \in DOMAIN d
    THEN [ ok |-> TRUE, value |-> d[k] ]
    ELSE [ ok |-> TRUE, value |-> 0 ]

\* d[k]: dict.__getitem__ raises KeyError on a missing key
getitem(d, k) ==
    IF k \in DOMAIN d
    THEN [ ok |-> TRUE,  value |-> d[k] ]
    ELSE [ ok |-> FALSE, value |-> 0 ]

-----------------------------------------------------------------------------
(* The embedding matrix and tf.nn.embedding_lookup.                        *)

\* the seeds a session's generator may start from (unseeded: any)
Seeds == {0, 1}

\* the n-th float drawn by random op number op of a session seeded with s,
\* in units of 1/1009
prng(s, op, n) == ((s + 1) * 7919 + op * 101 + n * 31) % 1009

\* tf.random_uniform([rows, cols]) accepts a shape without negative entries
shape_ok(rows, cols) == rows >= 0 /\ cols >= 0

\* a matrix built with its two dimensions exchanged
random_uniform_transposed(rows, cols, s, op) ==
    [ shape |-> << cols, rows >>,
      rows  |-> [ i \in 0..(cols - 1) |->
                    [ j \in 0..(rows - 1) |-> prng(s, op, i * rows + j) ] ] ]

\* tf.Variable(tf.random_uniform([rows, cols])): a rows x cols matrix
random_uniform(rows, cols, s, op) ==
    [ shape |-> << rows, cols >>,
      rows  |-> [ i \in 0..(rows - 1) |->
                    [ j \in 0..(cols - 1) |-> prng(s, op, i * cols + j) ] ] ]

\* an id that names a row of params
valid_id(params, id) == id >= 0 /\ id < params.shape[1]

\* the row gathered for one id; for an id out of range the GPU kernel
\* stores zeros (the CPU kernel fails, see embedding_lookup)
gather_row(params, id) ==
    IF valid_id(params, id)
    THEN params.rows[id]
    ELSE [ j \in 0..(params.shape[2] - 1) |-> 0 ]

\* a lookup that gathers the rows in reverse order of ids
embedding_lookup_reversed(params, ids, gpu) ==
    IF gpu \/ \A k \in 1..Len(ids) : valid_id(params, ids[k])
    THEN [ ok |-> TRUE,
           rows |-> [ k \in 1..Len(ids) |-> gather_row(params, ids[Len(ids) + 1 - k]) ] ]
    ELSE [ ok |-> FALSE, rows |-> << >> ]

\* tf.nn.embedding_lookup(params, ids) evaluated by sess.run: the rows of
\* params at ids, in the order of ids.  An id out of range is an
\* InvalidArgumentError on the CPU and a row of zeros on the GPU.
embedding_lookup(params, ids, gpu) ==
    IF gpu \/ \A k \in 1..Len(ids) : valid_id(params, ids[k])
    THEN [ ok |-> TRUE,  rows |-> [ k \in 1..Len(ids) |-> gather_row(params, ids[k]) ] ]
    ELSE [ ok |-> FALSE, rows |-> << >> ]

\* vocab_size, emd_dim an Embedding is constructed with
Dims == (-1)..MaxDim

\* the id sequences an Embedding is called with
IdSeqs == SeqsUpTo(Dims, MaxIds) \ { << >> }

-----------------------------------------------------------------------------
(* The session.                                                            *)

\* the filler of a name that will hold a matrix
NoMatrix == [ shape |-> << 0, 0 >>, rows |-> << >> ]

Init ==
    /\ pc = "cell4"
    /\ text \in Texts
    /\ bound = { "text" }
    /\ tokenized = << >>
    /\ vocab = << >>
    /\ VOCAB_LEN = 0
    /\ words = << >>
    /\ words_ids = << >>
    /\ embeddings = NoMatrix
    /\ embed = << >>
    /\ embedding = [ vocab_size |-> 0, emd_dim |-> 0, embeddings |-> NoMatrix ]
    /\ words_id = << >>
    /\ out = << >>
    /\ seed \in Seeds
    /\ err = None

\* tokenized = re.sub(...).lower().split(' ');  vocab = {k:v for v,k in ...}
Cell4 ==
    /\ pc = "cell4"
    /\ tokenized' = tokenize(text)
    /\ vocab' = build_vocab(tokenized')
    /\ bound' = bound \cup { "tokenized", "vocab" }
    /\ pc' = "cell8"
    /\ UNCHANGED << text, VOCAB_LEN, words, words_ids, embeddings, embed,
                    embedding, words_id, out, seed, err >>

\* VOCAB_LEN = len(vocab.keys())
Cell8 ==
    /\ pc = "cell8"
    /\ VOCAB_LEN' = len_keys(vocab)
    /\ bound' = bound \cup { "VOCAB_LEN" }
    /\ pc' = "cell10"
    /\ UNCHANGED << text, tokenized, vocab, words, words_ids, embeddings, embed,
                    embedding, words_id, out, seed, err >>

\* words_ids = tf.constant([vocab[w] for w in ws]); the notebook's ws is
\* ["abutere", "patientia"]
Cell10(ws) ==
    /\ pc = "cell10"
    /\ words' = ws
    /\ LET r == [ i \in 1..Len(ws) |-> getitem(vocab, ws[i]) ]
       IN  IF \A i \in 1..Len(ws) : r[i].ok
           THEN /\ words_ids' = [ i \in 1..Len(ws) |-> r[i].value ]
                /\ bound' = bound \cup { "words", "words_ids" }
                /\ pc' = "cell13"
                /\ err' = err
           ELSE /\ words_ids' = words_ids
                /\ bound' = bound \cup { "words" }
                /\ pc' = "error"
                /\ err' = "KeyError"
    /\ UNCHANGED << text, tokenized, vocab, VOCAB_LEN, embeddings, embed,
                    embedding, words_id, out, seed >>

\* embeddings = tf.Variable(tf.random_uniform([VOCAB_LEN, EMBED_SIZE]))
\* embed = tf.nn.embedding_lookup(embeddings, words_ids);  sess.run(embed)
Cell13(gpu) ==
    /\ pc = "cell13"
    /\ IF shape_ok(VOCAB_LEN, EMBED_SIZE)
       THEN /\ embeddings' = random_uniform(VOCAB_LEN, EMBED_SIZE, seed, 1)
            /\ LET r == embedding_lookup(embeddings', words_ids, gpu)
               IN  IF r.ok
                   THEN /\ embed' = r.rows
                        /\ bound' = bound \cup { "embeddings", "embed" }
                        /\ pc' = "cell20"
                        /\ err' = err
                   ELSE /\ embed' = embed
                        /\ bound' = bound \cup { "embeddings" }
                        /\ pc' = "error"
                        /\ err' = "InvalidArgumentError"
       ELSE /\ embeddings' = embeddings
            /\ embed' = embed
            /\ bound' = bound
            /\ pc' = "error"
            /\ err' = "ValueError"
    /\ UNCHANGED << text, tokenized, vocab, VOCAB_LEN, words, words_ids,
                    embedding, words_id, out, seed >>

\* Embedding.__init__(self, vocab_size, emd_dim); the notebook's call is
\* Embedding(VOCAB_LEN, EMBED_SIZE)
Embedding__init__(vocab_size, emd_dim) ==
    /\ pc = "cell20"
    /\ IF shape_ok(vocab_size, emd_dim)
       THEN /\ embedding' = [ vocab_size |-> vocab_size,
                              emd_dim    |-> emd_dim,
                              embeddings |-> random_uniform(vocab_size, emd_dim, seed, 2) ]
            /\ bound' = bound \cup { "embedding" }
            /\ pc' = "call"
            /\ err' = err
       ELSE /\ embedding' = embedding
            /\ bound' = bound
            /\ pc' = "error"
            /\ err' = "ValueError"
    /\ UNCHANGED << text, tokenized, vocab, VOCAB_LEN, words, words_ids,
                    embeddings, embed, words_id, out, seed >>

\* Embedding.__call__(self, words_id): the body gathers at the global
\* words_ids, not at its parameter words_id
Embedding__call__(arg, gpu) ==
    /\ pc = "call"
    /\ words_id' = arg
    /\ LET r == embedding_lookup(embedding.embeddings, words_ids, gpu)
       IN  IF r.ok
           THEN /\ out' = r.rows
                /\ bound' = bound \cup { "words_id", "out" }
                /\ pc' = "done"
                /\ err' = err
           ELSE /\ out' = out
                /\ bound' = bound \cup { "words_id" }
                /\ pc' = "error"
                /\ err' = "InvalidArgumentError"
    /\ UNCHANGED << text, tokenized, vocab, VOCAB_LEN, words, words_ids,
                    embeddings, embed, embedding, seed >>

Next ==
    \/ Cell4
    \/ Cell8
    \/ \E ws \in WordLists : Cell10(ws)
    \/ \E gpu \in BOOLEAN : Cell13(gpu)
    \/ \E v \in Dims, d \in Dims : Embedding__init__(v, d)
    \/ Embedding__init__(VOCAB_LEN, EMBED_SIZE)
    \/ \E arg \in IdSeqs, gpu \in BOOLEAN : Embedding__call__(arg, gpu)

Spec == Init /\ [][Next]_vars

-----------------------------------------------------------------------------
(* Properties.                                                             *)

\* the rows of table params gathered at ids, in the order of ids
RowsAt(params, ids, rows) ==
    /\ Len(rows) = Len(ids)
    /\ \A k \in 1..Len(ids) : rows[k] = params.rows[ids[k]]

AllValid(params, ids) == \A k \in 1..Len(ids) : valid_id(params, ids[k])

\* C1: a lookup of ids that are all valid rows of the table returns as many
\* rows as there are ids, the k-th being the table's row ids[k]: the order
\* of the ids is kept and a repeated id gives its row again.  This holds
\* of both uses of tf.nn.embedding_lookup: the native cell's
\* (embeddings, words_ids) and the one in the class (self.embeddings,
\* words_ids).
C1_LookupGathersRowsInOrder ==
    /\ "embed" \in bound =>
          AllValid(embeddings, words_ids) /\ RowsAt(embeddings, words_ids, embed)
    /\ (pc = "done" /\ AllValid(embedding.embeddings, words_ids)) =>
          RowsAt(embedding.embeddings, words_ids, out)

\* C1 witness: the notebook's text with "patientia" looked up before
\* "abutere": the ids 13, 0 are not ascending, and the rows come back as asked
C1_Witness ==
    /\ "embed" \in bound
    /\ text = NotebookText
    /\ Len(words_ids) >= 2
    /\ words_ids[1] = 13
    /\ words_ids[2] = 0
    /\ embed[1] = embeddings.rows[13]
    /\ embed[1] # embed[2]

\* the list s rearranged by the permutation f of its indexes
Rearranged(s, f) == [ i \in 1..Len(s) |-> s[f[i]] ]

\* the permutations of 1..n
Perms(n) == { f \in [1..n -> 1..n] : \A i, j \in 1..n : f[i] = f[j] => i = j }

\* the exchange of indexes i and j of 1..n
Swap(n, i, j) == [ k \in 1..n |-> IF k = i THEN j ELSE IF k = j THEN i ELSE k ]

\* every rearrangement of a short list; of a long one every exchange of two
\* elements, its reversal and its rotation by one
Rearrangements(s) ==
    LET n == Len(s)
    IN  IF n <= MaxLen + 1
        THEN { Rearranged(s, f) : f \in Perms(n) }
        ELSE { Rearranged(s, Swap(n, i, j)) : i, j \in 1..n }
             \cup { [ k \in 1..n |-> s[n + 1 - k] ],
                    [ k \in 1..n |-> s[(k % n) + 1] ] }

\* C2: the vocabulary built from any rearrangement of the token list is the
\* vocabulary built from the token list.
C2_VocabOrderIndependent ==
    pc = "cell8" =>
        \A p \in Rearrangements(tokenized) : build_vocab(p) = vocab

\* C2 witness: a vocabulary built from two distinct tokens given in
\* descending order
C2_Witness ==
    /\ pc = "cell8"
    /\ Len(tokenized) = 2
    /\ LexLess(tokenized[2], tokenized[1])

\* C3: the vocabulary maps exactly the distinct tokens, one to one, onto
\* 0..N-1, and a sorts before b exactly when id(a) < id(b); for the
\* notebook's text these are the ids the notebook prints (abutere 0,
\* patientia 13, 21 tokens).
C3_VocabIdsSortedContiguous ==
    pc = "cell8" =>
        LET N == Cardinality(Range(tokenized))
        IN  /\ DOMAIN vocab = Range(tokenized)
            /\ \A a, b \in DOMAIN vocab : a # b => vocab[a] # vocab[b]
            /\ { vocab[a] : a \in DOMAIN vocab } = 0..(N - 1)
            /\ \A a, b \in DOMAIN vocab : LexLess(a, b) <=> vocab[a] < vocab[b]
            /\ text = NotebookText =>
                  N = 21 /\ vocab[Abutere] = 0 /\ vocab[Patientia] = 13

\* C3 witness: the notebook's vocabulary
C3_Witness ==
    /\ pc = "cell8"
    /\ text = NotebookText
    /\ vocab[Patientia] = 13

\* the tokens joined by single spaces
RECURSIVE Joined(_)
Joined(toks) ==
    IF Len(toks) = 1
    THEN toks[1]
    ELSE toks[1] \o << 32 >> \o Joined(Tail(toks))

\* the text without its ',' '?' '.', capitals lowered: the k-th character
\* is the k-th character of the text that is none of the three
Normalized(t) ==
    LET kept == { i \in 1..Len(t) : t[i] \notin {44, 63, 46} }
        nth(k) == CHOOSE i \in kept : Cardinality({ j \in kept : j <= i }) = k
        low(c) == IF c \in 65..90 THEN c + 32 ELSE c
    IN  [ k \in 1..Cardinality(kept) |-> low(t[nth(k)]) ]

\* C4: the tokens hold no space, and joined by spaces in their order they
\* are the text without ',' '?' '.' in lowercase; tokenizing
\* "Quo usque tandem abutere, Catilina?" gives quo, usque, tandem, abutere,
\* catilina.
C4_TokenizerOutput ==
    pc = "cell8" =>
        /\ Len(tokenized) >= 1
        /\ \A k \in 1..Len(tokenized) : 32 \notin Range(tokenized[k])
        /\ Joined(tokenized) = Normalized(text)
        /\ text = ExampleText =>
              tokenized = << << 113, 117, 111 >>,
                             << 117, 115, 113, 117, 101 >>,
                             << 116, 97, 110, 100, 101, 109 >>,
                             << 97, 98, 117, 116, 101, 114, 101 >>,
                             << 99, 97, 116, 105, 108, 105, 110, 97 >> >>

\* C4 witness: the example text tokenized into its five words
C4_Witness ==
    /\ pc = "cell8"
    /\ text = ExampleText
    /\ Len(tokenized) = 5

\* C5: tokenizing the empty text gives no token.
C5_EmptyTextNoTokens ==
    ("tokenized" \in bound /\ text = << >>) => Len(tokenized) = 0

\* C6: asking the vocabulary for a token that does not occur in the
\* tokenized text ends the session with a KeyError, and no id is returned.
C6_MissingTokenKeyError ==
    ("words" \in bound /\ \E i \in 1..Len(words) : words[i] \notin Range(tokenized)) =>
        /\ pc = "error"
        /\ err = "KeyError"
        /\ "words_ids" \notin bound

\* C6 witness: the notebook's vocabulary asked for "abutere" and then "ab"
C6_Witness ==
    /\ text = NotebookText
    /\ words = << Abutere, << 97, 98 >> >>
    /\ err = "KeyError"

\* C7: a lookup whose id sequence holds an id outside 0..V-1 fails and
\* returns no row.
C7_OutOfRangeFails ==
    /\ "embed" \in bound => AllValid(embeddings, words_ids)
    /\ ("words_id" \in bound /\ ~ AllValid(embedding.embeddings, words_id)) =>
          /\ pc = "error"
          /\ err = "InvalidArgumentError"
          /\ "out" \notin bound

\* C8: no Embedding is constructed with vocab_size <= 0 or emd_dim <= 0.
C8_InvalidDimensionFails ==
    "embedding" \in bound => embedding.vocab_size > 0 /\ embedding.emd_dim > 0

C11_CallGathersAtArgument ==
    ("out" \in bound /\ AllValid(embedding.embeddings, words_id)) =>
        RowsAt(embedding.embeddings, words_id, out)

=============================================================================
